---- MODULE Spec2Model ----
(***************************************************************************)
(* A model of src/src/App.tsx: the todosReducer, the localStorage helpers  *)
(* loadTodos / saveTodos, and the TodoApp component that wires them with   *)
(* two effects (hydrate once, persist on change) and the click handlers.   *)
(*                                                                         *)
(* JavaScript values are tagged records, the text held by localStorage is  *)
(* a tree of JSON tokens, and JSON.parse / JSON.stringify convert between  *)
(* the two as the language defines them (a number literal too large for a  *)
(* double parses to Infinity, a non-finite number is written as null, an   *)
(* undefined property is not written at all).                              *)
(***************************************************************************)
EXTENDS Integers, Sequences, FiniteSets, TLC

\* ------------------------------------------------------------------ bounds
\* Longest text typed into the input field.
MaxTextLen == 2
\* Most elements of the array found in the slot when the process starts.
MaxStored == 2
\* Longest collection an Add is still tried on.
MaxTodos == 2
\* Date.now() answers a value in 1..MaxNow.
MaxNow == 1
\* Size of the pool crypto.randomUUID() draws from.
NumUUIDs == 2

\* ------------------------------------------------------- JavaScript values
\* Characters of a string: one whitespace character and one other.
Chars == {" ", "a"}

JsValue(ty, b, n, s) == [ty |-> ty, b |-> b, n |-> n, s |-> s]
Undefined == JsValue("undefined", FALSE, 0, <<>>)
Null == JsValue("null", FALSE, 0, <<>>)
Bool(b) == JsValue("boolean", b, 0, <<>>)
Num(n) == JsValue("number", FALSE, n, <<>>)
Infinity == JsValue("infinity", FALSE, 0, <<>>)
NaN == JsValue("nan", FALSE, 0, <<>>)
Str(s) == JsValue("string", FALSE, 0, s)

\* typeof v
TypeOf(v) ==
  CASE v.ty \in {"number", "infinity", "nan"} -> "number"
    [] v.ty = "null" -> "object"
    [] OTHER -> v.ty

\* !v for the values the program negates: a string is falsy when empty.
Falsy(v) ==
  CASE v.ty = "string" -> v.s = <<>>
    [] v.ty = "boolean" -> ~v.b
    [] v.ty = "number" -> v.n = 0
    [] v.ty = "infinity" -> FALSE
    [] OTHER -> TRUE

RECURSIVE TrimStart(_)
TrimStart(s) ==
  IF s # <<>> /\ Head(s) = " " THEN TrimStart(Tail(s)) ELSE s

RECURSIVE TrimEnd(_)
TrimEnd(s) ==
  IF s # <<>> /\ s[Len(s)] = " " THEN TrimEnd(SubSeq(s, 1, Len(s) - 1)) ELSE s

\* String.prototype.trim
Trim(v) == Str(TrimEnd(TrimStart(v.s)))

\* Todo
Todo(id, text, completed, createdAt) ==
  [id |-> id, text |-> text, completed |-> completed, createdAt |-> createdAt]

\* Filter
FilterAll == "all"
FilterActive == "active"
FilterCompleted == "completed"
Filter == {FilterAll, FilterActive, FilterCompleted}

\* Action
Hydrate(ts) == [type |-> "hydrate", text |-> Undefined, id |-> Undefined, todos |-> ts]
Add(text) == [type |-> "add", text |-> text, id |-> Undefined, todos |-> <<>>]
Toggle(id) == [type |-> "toggle", text |-> Undefined, id |-> id, todos |-> <<>>]
Remove(id) == [type |-> "remove", text |-> Undefined, id |-> id, todos |-> <<>>]
ClearCompleted == [type |-> "clearCompleted", text |-> Undefined, id |-> Undefined, todos |-> <<>>]
NoAction == [type |-> "none", text |-> Undefined, id |-> Undefined, todos |-> <<>>]

\* --------------------------------------------------------------- JSON text
\* A token of the text: key absent, null, true/false, a number literal, a
\* number literal beyond the range of a double (1e999), a string literal.
Tok(ty, b, n, s) == [ty |-> ty, b |-> b, n |-> n, s |-> s]
TAbsent == Tok("absent", FALSE, 0, <<>>)
TNull == Tok("null", FALSE, 0, <<>>)
TBool(b) == Tok("bool", b, 0, <<>>)
TNum(n) == Tok("num", FALSE, n, <<>>)
THuge == Tok("huge", FALSE, 0, <<>>)
TStr(s) == Tok("str", FALSE, 0, s)

\* An element of a stored array: an object with the four keys (each may be
\* absent), the literal null, or another non-object (a number, a string).
ObjText(id, text, completed, createdAt) ==
  [el |-> "object", id |-> id, text |-> text, completed |-> completed, createdAt |-> createdAt]
NullText == [el |-> "null", id |-> TAbsent, text |-> TAbsent, completed |-> TAbsent, createdAt |-> TAbsent]
ScalarText == [el |-> "scalar", id |-> TAbsent, text |-> TAbsent, completed |-> TAbsent, createdAt |-> TAbsent]

\* What localStorage.getItem(STORAGE_KEY) answers: null (no item), "", a text
\* that is not JSON, JSON that is not an array, or a JSON array.
NoItem == [kind |-> "none", elems |-> <<>>]
EmptyText == [kind |-> "empty", elems |-> <<>>]
GarbageText == [kind |-> "garbage", elems |-> <<>>]
NonArrayText == [kind |-> "nonarray", elems |-> <<>>]
ArrayText(elems) == [kind |-> "array", elems |-> elems]

\* JSON.parse of one token
ParseTok(t) ==
  CASE t.ty = "absent" -> Undefined
    [] t.ty = "null" -> Null
    [] t.ty = "bool" -> Bool(t.b)
    [] t.ty = "num" -> Num(t.n)
    [] t.ty = "huge" -> Infinity
    [] t.ty = "str" -> Str(t.s)

\* StringifyValue with numbers written as string literals.
StringifyValueNumbersAsText(v) ==
  CASE v.ty = "undefined" -> TAbsent
    [] v.ty = "null" -> TNull
    [] v.ty = "boolean" -> TBool(v.b)
    [] v.ty = "number" -> TStr(<<"a">>)
    [] v.ty \in {"infinity", "nan"} -> TNull
    [] v.ty = "string" -> TStr(v.s)

\* JSON.stringify of one property value
StringifyValue(v) ==
  CASE v.ty = "undefined" -> TAbsent
    [] v.ty = "null" -> TNull
    [] v.ty = "boolean" -> TBool(v.b)
    [] v.ty = "number" -> TNum(v.n)
    [] v.ty \in {"infinity", "nan"} -> TNull
    [] v.ty = "string" -> TStr(v.s)

\* JSON.parse of one array element: the value and, for an object, its properties.
ParseElem(e) ==
  [el |-> e.el, id |-> ParseTok(e.id), text |-> ParseTok(e.text),
   completed |-> ParseTok(e.completed), createdAt |-> ParseTok(e.createdAt)]

\* JSON.parse(raw): throws on text that is not JSON, the empty text included.
JSONparse(raw) ==
  [threw |-> raw.kind \in {"none", "empty", "garbage"},
   isArray |-> raw.kind = "array",
   items |-> [i \in 1..Len(raw.elems) |-> ParseElem(raw.elems[i])]]

\* JSON.stringify(todos)
JSONstringify(todos) ==
  ArrayText([i \in 1..Len(todos) |->
    ObjText(StringifyValue(todos[i].id), StringifyValue(todos[i].text),
            StringifyValue(todos[i].completed), StringifyValue(todos[i].createdAt))])

\* ------------------------------------------------------------- todosReducer
\* ToggleOne without the comparison of identifiers.
ToggleOneEvery(t, id) == [t EXCEPT !.completed = Bool(~t.completed.b)]

\* ToggleOne that sets the flag instead of inverting it.
ToggleOneSetsTrue(t, id) == IF t.id = id THEN [t EXCEPT !.completed = Bool(TRUE)] ELSE t

ToggleOne(t, id) == IF t.id = id THEN [t EXCEPT !.completed = Bool(~t.completed.b)] ELSE t

\* AddCase that stores the text as typed.
AddCaseUntrimmed(state, action, uuid, now) ==
  IF Falsy(Trim(action.text)) THEN state
  ELSE <<Todo(Str(uuid), action.text, Bool(FALSE), Num(now))>> \o state

\* AddCase that tests the text as typed: if (!action.text) return state.
AddCaseUntrimmedTest(state, action, uuid, now) ==
  IF Falsy(action.text) THEN state
  ELSE <<Todo(Str(uuid), Trim(action.text), Bool(FALSE), Num(now))>> \o state

\* case "add", with the identifier and the time the environment answers
AddCase(state, action, uuid, now) ==
  IF Falsy(Trim(action.text)) THEN state
  ELSE <<Todo(Str(uuid), Trim(action.text), Bool(FALSE), Num(now))>> \o state

\* RemoveCase with the test inverted: it keeps the record it should drop.
RemoveCaseKeepsMatch(state, action) == SelectSeq(state, LAMBDA t : t.id = action.id)

\* case "remove"
RemoveCase(state, action) == SelectSeq(state, LAMBDA t : t.id # action.id)

\* ClearCase with the test inverted: it keeps the completed records.
ClearCaseKeepsCompleted(state) == SelectSeq(state, LAMBDA t : t.completed.b)

\* case "clearCompleted"
ClearCase(state) == SelectSeq(state, LAMBDA t : ~t.completed.b)

\* todosReducer in which a toggle builds the record anew, with a new identifier.
todosReducerToggleReissuesId(state, action, uuid, now) ==
  CASE action.type = "hydrate" -> action.todos
    [] action.type = "add" -> AddCase(state, action, uuid, now)
    [] action.type = "toggle" ->
         [i \in 1..Len(state) |->
            IF state[i].id = action.id
              THEN Todo(Str(uuid), state[i].text, Bool(~state[i].completed.b), state[i].createdAt)
              ELSE state[i]]
    [] action.type = "remove" -> RemoveCase(state, action)
    [] action.type = "clearCompleted" -> ClearCase(state)
    [] OTHER -> state

\* todosReducer(state, action); uuid and now are what crypto.randomUUID() and
\* Date.now() answer when the add case asks.
todosReducer(state, action, uuid, now) ==
  CASE action.type = "hydrate" -> action.todos
    [] action.type = "add" -> AddCase(state, action, uuid, now)
    [] action.type = "toggle" -> [i \in 1..Len(state) |-> ToggleOne(state[i], action.id)]
    [] action.type = "remove" -> RemoveCase(state, action)
    [] action.type = "clearCompleted" -> ClearCase(state)
    [] OTHER -> state

\* ReturnsSameArray of a persist effect that never runs again (deps []).
ReturnsSameArrayAlways(action) == TRUE

\* Whether the reducer answers the very array it was given (return state): React
\* compares the result with Object.is and then skips the render and its effects.
\* map, filter, the array literal and the freshly loaded array are new arrays.
ReturnsSameArray(action) ==
  \/ action.type = "add" /\ Falsy(Trim(action.text))
  \/ action.type \notin {"hydrate", "add", "toggle", "remove", "clearCompleted"}

\* ----------------------------------------------------------- loadTodos, saveTodos
\* x?.p for a parsed array element: undefined on null, and on a value that
\* has no such property.
OptProp(x, p) == IF x.el = "null" THEN Undefined ELSE p

\* IsTodo without the test of createdAt.
IsTodoNoCreatedAt(x) ==
  /\ TypeOf(OptProp(x, x.id)) = "string"
  /\ TypeOf(OptProp(x, x.text)) = "string"
  /\ TypeOf(OptProp(x, x.completed)) = "boolean"

\* The naive runtime guard of loadTodos.
IsTodo(x) ==
  /\ TypeOf(OptProp(x, x.id)) = "string"
  /\ TypeOf(OptProp(x, x.text)) = "string"
  /\ TypeOf(OptProp(x, x.completed)) = "boolean"
  /\ TypeOf(OptProp(x, x.createdAt)) = "number"

AsTodo(x) == Todo(x.id, x.text, x.completed, x.createdAt)

\* The body of the try block of loadTodos: what it returns, or that it threw.
LoadTry(raw) ==
  IF raw.kind \in {"none", "empty"} THEN [threw |-> FALSE, value |-> <<>>]
  ELSE LET parsed == JSONparse(raw) IN
    IF parsed.threw THEN [threw |-> TRUE, value |-> <<>>]
    ELSE IF parsed.isArray
      THEN LET kept == SelectSeq(parsed.items, IsTodo) IN
             [threw |-> FALSE, value |-> [i \in 1..Len(kept) |-> AsTodo(kept[i])]]
      ELSE [threw |-> FALSE, value |-> <<>>]

\* loadTodos(): try { ... } catch { return []; }
loadTodos(raw) ==
  IF LoadTry(raw).threw THEN [threw |-> FALSE, value |-> <<>>] ELSE LoadTry(raw)

\* saveTodos(todos): localStorage.setItem(STORAGE_KEY, JSON.stringify(todos)).
\* setItem throws when the storage refuses the write (quota, disabled storage);
\* nothing catches it. Answers the slot afterwards and whether it threw.
saveTodos(store, ts, writable) ==
  IF writable THEN [threw |-> FALSE, slot |-> JSONstringify(ts)]
  ELSE [threw |-> TRUE, slot |-> store]

\* ------------------------------------------------------------------ TodoApp
VARIABLES
  slot,         \* the text localStorage holds under STORAGE_KEY
  todos,        \* the state of useReducer(todosReducer, [])
  filter,       \* the state of useState<Filter>(Filter.All)
  pc,           \* where the component is: which effect or render runs next
  pending,      \* the action dispatch has queued for the next render
  applied,      \* the action whose new collection awaits its persist effect
  unsaved,      \* a transition has been applied and no Save has run since
  writeFailed,  \* a setItem of this process has thrown
  lastSaved,    \* the collection the last successful Save encoded, if any
  hydrated,     \* how many hydrate actions this run has reduced
  start,        \* the slot as it was when the run began, until the first intent
  before,       \* ReducerSpec: the collection the reducer was given
  twin          \* ReducerSpec: what a second call with the same arguments returned

vars == <<slot, todos, filter, pc, pending, applied, unsaved, writeFailed, lastSaved,
          hydrated, start, before, twin>>

\* Strings of at most n characters.
StringsUpTo(n) == UNION {[1..k -> Chars] : k \in 0..n}

\* What the user can type into the input field.
Texts == {Str(s) : s \in StringsUpTo(MaxTextLen)}

Digit == <<"1", "2", "3", "4", "5", "6", "7", "8", "9">>
\* The identifiers crypto.randomUUID() can answer.
UUIDs == {<<"u", Digit[k]>> : k \in 1..NumUUIDs}

IdsOf(ts) == {ts[i].id : i \in 1..Len(ts)}

\* Elements a stored array is made of: well-formed records (one with a blank
\* text, one with a text that has a trailing blank, one with a time beyond
\* the range of a double, two sharing an identifier) and elements that fail
\* one clause of the guard each.
StoredElems ==
  { ObjText(TStr(<<"u", "1">>), TStr(<<"a">>), TBool(FALSE), TNum(1)),
    ObjText(TStr(<<"u", "2">>), TStr(<<"a", " ">>), TBool(TRUE), TNum(2)),
    ObjText(TStr(<<"u", "1">>), TStr(<<" ">>), TBool(TRUE), TNum(1)),
    ObjText(TStr(<<"a">>), TStr(<<"a">>), TBool(FALSE), THuge),
    ObjText(TNum(1), TStr(<<"a">>), TBool(FALSE), TNum(1)),
    ObjText(TStr(<<"u", "2">>), TAbsent, TBool(FALSE), TNum(1)),
    ObjText(TStr(<<"u", "2">>), TStr(<<"a">>), TStr(<<"a">>), TNum(1)),
    ObjText(TStr(<<"u", "2">>), TStr(<<"a">>), TBool(TRUE), TNull),
    NullText,
    ScalarText }

\* What the slot may hold when the process starts.
InitialSlots ==
  {NoItem, EmptyText, GarbageText, NonArrayText}
    \cup {ArrayText(es) : es \in UNION {[1..k -> StoredElems] : k \in 0..MaxStored}}

NoSave == [valid |-> FALSE, c |-> <<>>]

\* The slot of the start of the run is remembered until the user acts.
StartOf(raw) == [known |-> TRUE, slot |-> raw]
NoStart == [known |-> FALSE, slot |-> NoItem]

\* The state after the first render: useReducer(todosReducer, []),
\* useState(Filter.All), both effects still to run.
Init ==
  /\ slot \in InitialSlots
  /\ todos = <<>>
  /\ filter = FilterAll
  /\ pc = "hydrateEffect"
  /\ pending = NoAction
  /\ applied = NoAction
  /\ unsaved = FALSE
  /\ writeFailed = FALSE
  /\ lastSaved = NoSave
  /\ hydrated = 0
  /\ start = StartOf(slot)
  /\ before = <<>>
  /\ twin = <<>>

\* useEffect(() => { dispatch({ type: "hydrate", todos: loadTodos() }) }, []):
\* loadTodos reads the slot now, dispatch queues the action for the next render.
\* An exception leaving the effect unmounts the tree.
HydrateEffect ==
  /\ pc = "hydrateEffect"
  /\ LET r == loadTodos(slot) IN
       IF r.threw
         THEN pc' = "crashed" /\ pending' = pending
         ELSE pc' = "mountPersist" /\ pending' = Hydrate(r.value)
  /\ UNCHANGED <<slot, todos, filter, applied, unsaved, writeFailed, lastSaved,
                 hydrated, start, before, twin>>

\* useEffect(() => { saveTodos(todos) }, [todos]), run with the todos of the
\* render that scheduled it. setItem may throw; nothing catches it, and React
\* unmounts the tree on an exception that leaves an effect.
RunPersist(next) ==
  \E writable \in BOOLEAN :
    LET r == saveTodos(slot, todos, writable) IN
      /\ slot' = r.slot
      /\ pc' = IF r.threw THEN "crashed" ELSE next
      /\ writeFailed' = (writeFailed \/ r.threw)
      /\ unsaved' = IF r.threw THEN unsaved ELSE FALSE
      /\ lastSaved' = IF r.threw THEN lastSaved ELSE [valid |-> TRUE, c |-> todos]
      /\ applied' = NoAction
      /\ UNCHANGED <<todos, filter, pending, hydrated, start, before, twin>>

\* The persist effect of the first render: it saves the initial [] before the
\* queued hydrate action is reduced.
MountPersistEffect ==
  /\ pc = "mountPersist"
  /\ RunPersist("render")

\* The persist effect of a render in which todos is a new array.
PersistEffect ==
  /\ pc = "persist"
  /\ RunPersist("idle")

\* What crypto.randomUUID() and Date.now() may answer the reducer: asked only
\* by an add of a text that is not blank; the identifier is one that no record
\* of the collection carries (a version 4 UUID repeating is not modelled).
Environment(state, action) ==
  IF action.type = "add" /\ ~Falsy(Trim(action.text))
    THEN {<<uuid, now>> : uuid \in {u \in UUIDs : Str(u) \notin IdsOf(state)}, now \in 1..MaxNow}
    ELSE {<<<<>>, 0>>}

\* The render after a dispatch: the reducer is applied to the queued action.
\* When it answers the array it was given, React bails out and no effect runs.
Render ==
  /\ pc = "render"
  /\ \E env \in Environment(todos, pending) :
       todos' = todosReducer(todos, pending, env[1], env[2])
  /\ pc' = IF ReturnsSameArray(pending) THEN "idle" ELSE "persist"
  /\ unsaved' = TRUE
  /\ pending' = NoAction
  /\ applied' = IF ReturnsSameArray(pending) THEN NoAction ELSE pending
  /\ hydrated' = IF pending.type = "hydrate" THEN hydrated + 1 ELSE hydrated
  /\ UNCHANGED <<slot, filter, writeFailed, lastSaved, start, before, twin>>

\* filtered with the tests of Active and Completed exchanged.
filteredExchanged ==
  CASE filter = FilterActive -> SelectSeq(todos, LAMBDA t : t.completed.b)
    [] filter = FilterCompleted -> SelectSeq(todos, LAMBDA t : ~t.completed.b)
    [] OTHER -> todos

\* filtered: the useMemo over [todos, filter]
filtered ==
  CASE filter = FilterActive -> SelectSeq(todos, LAMBDA t : ~t.completed.b)
    [] filter = FilterCompleted -> SelectSeq(todos, LAMBDA t : t.completed.b)
    [] OTHER -> todos

\* remaining: the useMemo over [todos]
remaining == Len(SelectSeq(todos, LAMBDA t : ~t.completed.b))

Dispatch(action) ==
  /\ pc = "idle"
  /\ pending' = action
  /\ pc' = "render"
  /\ start' = NoStart
  /\ UNCHANGED <<slot, todos, filter, applied, unsaved, writeFailed, lastSaved,
                 hydrated, before, twin>>

\* handleSubmit: dispatch add with the value of the input field.
HandleSubmit ==
  \E value \in Texts :
    /\ Falsy(Trim(value)) \/ Len(todos) < MaxTodos
    /\ Dispatch(Add(value))

\* onChange of the checkbox of a displayed item
ToggleClick == \E i \in 1..Len(filtered) : Dispatch(Toggle(filtered[i].id))

\* onClick of the delete button of a displayed item
RemoveClick == \E i \in 1..Len(filtered) : Dispatch(Remove(filtered[i].id))

\* onClick of "Clear completed"
ClearCompletedClick == Dispatch(ClearCompleted)

\* SetFilter that stores the view of the new filter as the collection.
SetFilterStoresView ==
  /\ pc = "idle"
  /\ \E f \in Filter :
       /\ f # filter
       /\ filter' = f
       /\ todos' = IF f = FilterAll THEN todos
                   ELSE SelectSeq(todos, LAMBDA t : t.completed.b = (f = FilterCompleted))
  /\ start' = NoStart
  /\ UNCHANGED <<slot, pc, pending, applied, unsaved, writeFailed, lastSaved,
                 hydrated, before, twin>>

\* onClick of a FilterButton: setFilter(f)
SetFilter ==
  /\ pc = "idle"
  /\ \E f \in Filter : f # filter /\ filter' = f
  /\ start' = NoStart
  /\ UNCHANGED <<slot, todos, pc, pending, applied, unsaved, writeFailed, lastSaved,
                 hydrated, before, twin>>

\* The page is closed or reloaded and the component mounts anew: the
\* component state is gone, the slot stays.
Reload ==
  /\ pc \in {"idle", "crashed"}
  /\ todos' = <<>>
  /\ filter' = FilterAll
  /\ pc' = "hydrateEffect"
  /\ pending' = NoAction
  /\ applied' = NoAction
  /\ unsaved' = FALSE
  /\ writeFailed' = FALSE
  /\ hydrated' = 0
  /\ start' = StartOf(slot)
  /\ UNCHANGED <<slot, lastSaved, before, twin>>

Next ==
  \/ HydrateEffect
  \/ MountPersistEffect
  \/ Render
  \/ PersistEffect
  \/ HandleSubmit
  \/ ToggleClick
  \/ RemoveClick
  \/ ClearCompletedClick
  \/ SetFilter
  \/ Reload

Spec == Init /\ [][Next]_vars

\* ------------------------------------------------- todosReducer on its own
\* The reducer called directly, as dispatch allows: any collection of
\* records, any action, and the same call made a second time.
Records ==
  {Todo(Str(u), Str(<<"a">>), Bool(c), Num(n)) : u \in UUIDs, c \in BOOLEAN, n \in 1..MaxNow}

Collections == UNION {[1..k -> Records] : k \in 0..MaxTodos}

\* Identifiers an action may name: those of records, and one no record has.
ActionIds == {Str(u) : u \in UUIDs} \cup {Str(<<"a">>)}

Actions ==
  {Add(t) : t \in Texts}
    \cup {Toggle(i) : i \in ActionIds}
    \cup {Remove(i) : i \in ActionIds}
    \cup {ClearCompleted}
    \cup {Hydrate(c) : c \in UNION {[1..k -> Records] : k \in 0..1}}

\* What crypto.randomUUID() and Date.now() would answer one call of the
\* reducer; an add of a text that is not blank is answered an identifier no
\* record of the collection carries.
Answers(state, action) ==
  {<<uuid, now>> :
     uuid \in IF action.type = "add" /\ ~Falsy(Trim(action.text))
                THEN {u \in UUIDs : Str(u) \notin IdsOf(state)} ELSE UUIDs,
     now \in 0..MaxNow}

ReducerInit ==
  /\ todos \in Collections
  /\ pending \in Actions
  /\ pc = "reduce"
  /\ before = todos
  /\ twin = todos
  /\ slot = NoItem
  /\ filter = FilterAll
  /\ applied = NoAction
  /\ unsaved = FALSE
  /\ writeFailed = FALSE
  /\ lastSaved = NoSave
  /\ hydrated = 0
  /\ start = NoStart

\* todosReducer(state, action), called twice with the same arguments.
Reduce ==
  /\ pc = "reduce"
  /\ \E e1, e2 \in Answers(todos, pending) :
       /\ todos' = todosReducer(todos, pending, e1[1], e1[2])
       /\ twin' = todosReducer(todos, pending, e2[1], e2[2])
  /\ pc' = "reduced"
  /\ applied' = pending
  /\ pending' = NoAction
  /\ UNCHANGED <<slot, filter, unsaved, writeFailed, lastSaved, hydrated, start, before>>

ReducerNext == Reduce

ReducerSpec == ReducerInit /\ [][ReducerNext]_vars

\* ------------------------------------------------------------------- claims
\* C1: in every reachable state no two records of the collection carry the
\* same identifier.
C1_IdentifiersUnique ==
  \A i, j \in 1..Len(todos) : i # j => todos[i].id # todos[j].id

\* A text with a character that is not whitespace.
NonBlank(s) == \E k \in 1..Len(s) : s[k] # " "

\* C2: in every reachable state every record of the collection has a text
\* that is non-empty after trimming.
C2_TextsNonBlank ==
  \A i \in 1..Len(todos) : NonBlank(todos[i].text.s)

\* C3: whenever the component is idle between two intents, the slot decodes
\* (Load) to exactly the collection held in memory.
C3_SlotDecodesToCollection ==
  pc = "idle" => loadTodos(slot).value = todos

\* C7: a storage write that fails inside Save is not propagated: the
\* component stays mounted with its collection and goes on applying intents.
C7_SaveFailureSwallowed ==
  writeFailed => pc # "crashed"

\* The step about to be taken is a call of saveTodos.
SaveStep == pc \in {"mountPersist", "persist"}

\* The step about to be taken applies the next intent of the user.
IntentStep == pc = "idle" /\ pc' = "render"

\* C4 as claimed: every Save follows a transition and writes its collection,
\* and every transition has had its Save when the next intent is applied.
C4_EverySaveFollowsItsTransition ==
  [][ /\ SaveStep => unsaved /\ (writeFailed' \/ slot' = JSONstringify(todos))
      /\ IntentStep => ~unsaved ]_vars

\* What a call of saveTodos does: it is passed the current collection and
\* leaves its encoding in the slot, or the write throws and the slot stays.
SaveOutcome ==
  IF writeFailed'
    THEN slot' = slot /\ lastSaved' = lastSaved
    ELSE slot' = JSONstringify(todos) /\ lastSaved' = [valid |-> TRUE, c |-> todos] /\ ~unsaved'

BlankAdd(action) == action.type = "add" /\ ~NonBlank(action.text.s)

\* C4 as amended: the slot is written by Save steps only; the Save on mount
\* precedes every transition and is passed the initial empty collection; every
\* other Save follows a transition that made a new collection and is passed
\* that collection; a transition is followed by its Save unless it is an Add
\* of blank text, which is followed by none; and when the next intent is
\* applied the last Save was passed the current collection.
C4_SavesFollowNewCollections ==
  [][ /\ slot' # slot => SaveStep
      /\ pc = "mountPersist" => ~unsaved /\ todos = <<>> /\ todos' = todos /\ SaveOutcome
      /\ pc = "persist" => unsaved /\ todos' = todos /\ SaveOutcome
      /\ pc = "render" => pc' = (IF BlankAdd(pending) THEN "idle" ELSE "persist")
      /\ IntentStep => lastSaved.valid /\ lastSaved.c = todos ]_vars

\* A Save has followed an Add made after startup: two records, the first
\* with a text no stored element has.
C4_Witness ==
  /\ pc = "idle" /\ ~unsaved
  /\ lastSaved.valid /\ lastSaved.c = todos /\ slot = JSONstringify(todos)
  /\ Len(todos) = 2 /\ todos[1].text = Str(<<"a", "a">>)

\* Every record has a string id, a string text, a boolean completed and a
\* numeric createdAt.
ValidCollection(c) ==
  \A i \in 1..Len(c) :
    /\ TypeOf(c[i].id) = "string" /\ TypeOf(c[i].text) = "string"
    /\ TypeOf(c[i].completed) = "boolean" /\ TypeOf(c[i].createdAt) = "number"

FiniteTimes(c) == \A i \in 1..Len(c) : c[i].createdAt.ty = "number"

\* The slot holds what Save wrote for the valid collection lastSaved.c, and
\* Load is about to read it.
LoadsSaved ==
  /\ pc = "hydrateEffect"
  /\ lastSaved.valid /\ ValidCollection(lastSaved.c)
  /\ slot = JSONstringify(lastSaved.c)

WellFormedText(e) ==
  /\ e.el = "object"
  /\ e.id.ty = "str" /\ e.text.ty = "str"
  /\ e.completed.ty = "bool" /\ e.createdAt.ty \in {"num", "huge"}

\* The record a well-formed element stands for.
Decoded(e) ==
  Todo(Str(e.id.s), Str(e.text.s), Bool(e.completed.b),
       IF e.createdAt.ty = "huge" THEN Infinity ELSE Num(e.createdAt.n))

ExpectedLoad(raw) ==
  IF raw.kind = "array"
    THEN LET kept == SelectSeq(raw.elems, WellFormedText) IN
           [i \in 1..Len(kept) |-> Decoded(kept[i])]
    ELSE <<>>

\* C6: Load never raises; on an absent, undecodable or non-array slot it
\* returns the empty collection, and on an array exactly the well-formed
\* elements in their stored order.
C6_LoadKeepsWellFormed ==
  /\ pc = "mountPersist" => pending = Hydrate(ExpectedLoad(slot))
  /\ pc = "crashed" => writeFailed

\* Load has dropped the first of two stored elements and kept the second.
C6_Witness ==
  /\ pc = "mountPersist" /\ slot.kind = "array" /\ Len(slot.elems) = 2
  /\ ~WellFormedText(slot.elems[1])
  /\ pending.type = "hydrate" /\ Len(pending.todos) = 1

Spaces(n) == [i \in 1..n |-> " "]

\* r is t without its leading and trailing whitespace.
IsTrimOf(r, t) ==
  /\ r = <<>> \/ (r[1] # " " /\ r[Len(r)] # " ")
  /\ \E i, j \in 0..Len(t) : t = Spaces(i) \o r \o Spaces(j)

\* C8: an Add of a text that is not blank yields one record more: the first
\* is not completed, carries the trimmed text and an identifier no record
\* of C has, and the others are C in its order.
C8_AddPrepends ==
  [][ pc = "render" /\ pending.type = "add" /\ NonBlank(pending.text.s) =>
        /\ Len(todos') = Len(todos) + 1
        /\ todos'[1].completed = Bool(FALSE)
        /\ todos'[1].text.ty = "string" /\ IsTrimOf(todos'[1].text.s, pending.text.s)
        /\ todos'[1].id \notin IdsOf(todos)
        /\ SubSeq(todos', 2, Len(todos')) = todos ]_vars

\* A text with a leading blank has been added to a collection of one record.
C8_Witness ==
  /\ pc = "persist" /\ applied = Add(Str(<<" ", "a">>))
  /\ Len(todos) = 2 /\ todos[1].text = Str(<<"a">>)

\* C9: an Add of a blank text leaves the collection as it is and fails nothing.
C9_BlankAddIsNoOp ==
  [][ pc = "render" /\ BlankAdd(pending) => todos' = todos /\ pc' = "idle" ]_vars

\* A blank Add has been applied to a collection of two records: the component
\* is idle again and the transition has had no Save.
C9_Witness ==
  pc = "idle" /\ unsaved /\ Len(todos) = 2 /\ slot = JSONstringify(todos)

\* C10: a Toggle of an identifier of C keeps length and order, inverts the
\* flag of the record with that identifier, keeps its id, text and createdAt,
\* and leaves every other record as it is.
C10_ToggleInvertsFlag ==
  [][ pc = "render" /\ pending.type = "toggle" /\ pending.id \in IdsOf(todos) =>
        /\ Len(todos') = Len(todos)
        /\ \A i \in 1..Len(todos) :
             IF todos[i].id = pending.id
               THEN /\ todos'[i].completed = Bool(~todos[i].completed.b)
                    /\ todos'[i].id = todos[i].id
                    /\ todos'[i].text = todos[i].text
                    /\ todos'[i].createdAt = todos[i].createdAt
               ELSE todos'[i] = todos[i] ]_vars

\* The second of two records has been toggled from completed to not completed.
C10_Witness ==
  /\ pc = "persist" /\ applied.type = "toggle"
  /\ Len(todos) = 2 /\ todos[1].id # todos[2].id
  /\ applied.id = todos[2].id /\ todos[2].completed = Bool(FALSE)
  /\ todos[1].completed = Bool(TRUE)

\* r holds exactly the records of c at the positions keep, in the order of c.
IsProjection(r, c, keep) ==
  /\ Len(r) = Cardinality(keep)
  /\ \A i \in keep : r[Cardinality({j \in keep : j <= i})] = c[i]

\* C11: a Toggle or a Remove of an identifier no record of C carries returns C.
C11_AbsentIdIsNoOp ==
  pc = "reduced" /\ applied.type \in {"toggle", "remove"} /\ applied.id \notin IdsOf(before)
    => todos = before

\* A Toggle of an identifier absent from a collection of two records has
\* returned the collection.
C11_Witness ==
  /\ pc = "reduced" /\ applied.type = "toggle" /\ applied.id \notin IdsOf(before)
  /\ Len(before) = 2 /\ todos = before

\* C12: a Remove of an identifier of C returns no record with that identifier
\* and every other record of C, unchanged and in the order of C.
C12_RemoveDropsMatches ==
  pc = "reduced" /\ applied.type = "remove" /\ applied.id \in IdsOf(before)
    => /\ applied.id \notin IdsOf(todos)
       /\ IsProjection(todos, before, {i \in 1..Len(before) : before[i].id # applied.id})

\* The first of two records with different identifiers has been removed.
C12_Witness ==
  /\ pc = "reduced" /\ applied.type = "remove"
  /\ Len(before) = 2 /\ before[1].id = applied.id /\ before[2].id # applied.id
  /\ todos = <<before[2]>>

\* C13: ClearCompleted returns exactly the records of C that are not
\* completed, unchanged and in the order of C; C itself when none is completed.
C13_ClearKeepsActive ==
  pc = "reduced" /\ applied.type = "clearCompleted"
    => /\ IsProjection(todos, before,
                       {i \in 1..Len(before) : before[i].completed = Bool(FALSE)})
       /\ (\A i \in 1..Len(before) : before[i].completed # Bool(TRUE)) => todos = before

\* The completed first record of two has been cleared, the other kept.
C13_Witness ==
  /\ pc = "reduced" /\ applied.type = "clearCompleted"
  /\ Len(before) = 2 /\ before[1].completed = Bool(TRUE)
  /\ todos = <<before[2]>>

\* C14 as claimed: two calls that apply the same action to equal collections
\* return equal collections.
C14_Deterministic ==
  pc = "reduced" => todos = twin

AddsRecord(action) == action.type = "add" /\ NonBlank(action.text.s)

\* C14 as amended: two calls with the same action and equal collections
\* return equal collections for Hydrate, Toggle, Remove, ClearCompleted and an
\* Add of blank text; for an Add of any other text they agree in everything
\* but the id and the createdAt of the new first record.
C14_DeterministicButAdd ==
  pc = "reduced" =>
    IF AddsRecord(applied)
      THEN /\ Len(todos) = Len(twin) /\ Len(todos) = Len(before) + 1
           /\ todos[1].text = twin[1].text /\ todos[1].completed = twin[1].completed
           /\ \A i \in 2..Len(todos) : todos[i] = twin[i]
      ELSE todos = twin

\* Two calls of the same Add on a collection of one record have returned
\* collections whose first records carry different times of creation.
C14_Witness ==
  /\ pc = "reduced" /\ AddsRecord(applied)
  /\ Len(before) = 1 /\ Len(todos) = 2 /\ Len(twin) = 2
  /\ todos[1].createdAt # twin[1].createdAt /\ todos[2] = before[1] /\ twin[2] = before[1]

\* C15: a step that changes the filter while the component stays mounted
\* changes neither the collection nor the slot, and a step that writes the
\* slot writes the encoding of the collection and leaves the filter alone.
C15_FilterLeavesCollectionAndSlot ==
  [][ /\ (filter' # filter /\ pc' # "hydrateEffect") => (todos' = todos /\ slot' = slot)
      /\ slot' # slot => (slot' = JSONstringify(todos) /\ filter' = filter) ]_vars

\* Completed has been selected over a saved collection of two records of
\* which it shows one.
C15_Witness ==
  /\ pc = "idle" /\ filter = FilterCompleted
  /\ Len(todos) = 2 /\ Len(filtered) = 1
  /\ slot = JSONstringify(todos)

\* C16: the displayed view is the collection under All, its records with
\* completed = false under Active, those with completed = true under
\* Completed, in the order of the collection; the remaining count is the
\* number of records with completed = false under every filter.
C16_ViewIsProjection ==
  /\ filter = FilterAll => filtered = todos
  /\ filter = FilterActive =>
       IsProjection(filtered, todos, {i \in 1..Len(todos) : todos[i].completed = Bool(FALSE)})
  /\ filter = FilterCompleted =>
       IsProjection(filtered, todos, {i \in 1..Len(todos) : todos[i].completed = Bool(TRUE)})
  /\ remaining = Cardinality({i \in 1..Len(todos) : todos[i].completed = Bool(FALSE)})

\* Active shows the second of two records, the first being completed.
C16_Witness ==
  /\ pc = "idle" /\ filter = FilterActive
  /\ Len(todos) = 2 /\ todos[1].completed = Bool(TRUE)
  /\ filtered = <<todos[2]>> /\ remaining = 1

\* C17: a run that has come to rest has applied exactly one Hydrate; every
\* other action is applied after it; and its argument is what loadTodos
\* returns on the slot of the start of the run.
C17_HydrateOnceFirst ==
  /\ hydrated <= 1
  /\ pc \in {"idle", "crashed"} => hydrated = 1
  /\ (pc = "render" /\ pending.type # "hydrate") => hydrated = 1
  /\ (pc = "render" /\ pending.type = "hydrate") =>
       /\ hydrated = 0
       /\ start.known
       /\ pending.todos = loadTodos(start.slot).value

\* What the slot holds once the well-formed elements of raw are kept.
KeptText(raw) ==
  ArrayText(IF raw.kind = "array" THEN SelectSeq(raw.elems, WellFormedText) ELSE <<>>)

\* C18: at rest after the start of a run, before the user has acted, the slot
\* holds the well-formed elements of the slot of the start, in their order.
C18_StartupKeepsWellFormed ==
  (pc = "idle" /\ start.known) => slot = KeptText(start.slot)
====
